---- MODULE Spec2Model ----
(***************************************************************************)
(* Streaming analysis session engine of the drift-assist dashboard:        *)
(*   - DriftAssistProvider.tsx: the session store (sessions,               *)
(*     currentSession, activeStreams), its reducer handleStreamingUpdate   *)
(*     and the life-cycle operations;                                      *)
(*   - S3StreamingAnalysis.tsx: the component that runs one analysis in    *)
(*     its own React state.                                                *)
(* React state updates are functional updaters applied in call order, so   *)
(* each handler is one atomic step between two awaits.                     *)
(***************************************************************************)
EXTENDS Integers, Sequences, FiniteSets, TLC

VARIABLES
    sessions,        \* Provider: Record<string, AnalysisSession>
    currentSession,  \* Provider: <<>> (null) or <<snapshot>>
    activeStreams,   \* Provider: session id -> driver owning the registered handle
    tasks,           \* one entry per startAnalysis invocation (its async continuation)
    now,             \* Date.now()
    wire,            \* bytes of the response body the backend has still to deliver
    comp,            \* S3StreamingAnalysis: the component's React state and ref
    runs             \* S3StreamingAnalysis: one entry per startAnalysis call that passed the guard

vars == <<sessions, currentSession, activeStreams, tasks, now, wire, comp, runs>>

----------------------------------------------------------------------------
(* Bounds of the model *)

MaxTasks == 2
MaxClock == 1
MaxReads == 2
MaxChunkLines == 1
MaxEvents == 3
MaxLines == 2
MaxRuns == 3

----------------------------------------------------------------------------
(* JavaScript values *)

Undefined == "undefined"
Null == "null"

\* an optional structured value: {} is undefined, {v} is the value v
IsPresent(o) == o # {}

\* a JS object whose key order matters: a sequence of entries in insertion order
Keys(o) == [i \in 1..Len(o) |-> o[i].k]
Has(o, key) == \E i \in 1..Len(o) : o[i].k = key
Lookup(o, key) == o[CHOOSE i \in 1..Len(o) : o[i].k = key].v
\* the entry added at the end even when the key is already there
PutAppend(o, key, val) == Append(o, [k |-> key, v |-> val])

Put(o, key, val) ==
    IF Has(o, key)
    THEN [i \in 1..Len(o) |-> IF o[i].k = key THEN [k |-> key, v |-> val] ELSE o[i]]
    ELSE Append(o, [k |-> key, v |-> val])

\* a || b on strings
OrElse(a, b) == IF a = Undefined THEN b ELSE a

----------------------------------------------------------------------------
(* The data model *)

Resources == {"ec2", "s3"}

\* ...updatedSession.resourceResults[r] when r has no entry: every property undefined
NoResource ==
    [status |-> Undefined, detectionStatus |-> Undefined, reportStatus |-> Undefined,
     detectionResults |-> {}, reportResults |-> {}]

ResourceOf(rr, r) == IF Has(rr, r) THEN Lookup(rr, r) ELSE NoResource

AllFields == {"id", "analysisData", "analysisResults", "resourceResults", "isAnalyzing",
              "analysisComplete", "hasStarted", "error", "timestamp"}

\* {...undefined}: a record none of whose properties is defined
NoSession ==
    [def |-> {}, id |-> <<>>, fileName |-> <<>>,
     analysisResults |-> [status |-> Undefined, session_dir |-> Undefined, resources |-> {}],
     resourceResults |-> <<>>, isAnalyzing |-> FALSE, analysisComplete |-> FALSE,
     hasStarted |-> FALSE, error |-> Undefined, timestamp |-> -1]

SessionOf(ss, sid) == IF sid \in DOMAIN ss THEN ss[sid] ELSE NoSession

\* {...prev, [sid]: rec}
WithSession(ss, sid, rec) ==
    [x \in (DOMAIN ss) \cup {sid} |-> IF x = sid THEN rec ELSE ss[x]]

Without(f, x) == [y \in (DOMAIN f) \ {x} |-> f[y]]

----------------------------------------------------------------------------
(* The event protocol *)

D2 == [drifts |-> {<<"drift1", "drift2">>}, drift_count |-> {}, has_drift |-> Undefined]
D0 == [drifts |-> {<<>>}, drift_count |-> {}, has_drift |-> Undefined]
\* a detection result carrying both a drifts list and a drift_count, and one carrying
\* a drift_count only
D2of5 == [drifts |-> {<<"drift1", "drift2">>}, drift_count |-> {5}, has_drift |-> Undefined]
DCount3 == [drifts |-> {}, drift_count |-> {3}, has_drift |-> Undefined]

GroupEntry(st, dr, rp) == [status |-> st, drift_result |-> dr, report |-> rp]

\* the JSON texts the backend can send, by name, and the object each parses to
EventTable ==
    [si   |-> [type |-> "session_initialized", session_dir |-> "dir"],
     as12 |-> [type |-> "analysis_started", resources |-> <<"ec2", "s3">>],
     as2  |-> [type |-> "analysis_started", resources |-> <<"s3">>],
     as21 |-> [type |-> "analysis_started", resources |-> <<"s3", "ec2">>],
     ri1  |-> [type |-> "resource_initialized", resource |-> "ec2",
               detectionStatus |-> Undefined, reportStatus |-> Undefined],
     ri2  |-> [type |-> "resource_initialized", resource |-> "s3",
               detectionStatus |-> Undefined, reportStatus |-> Undefined],
     ri1c |-> [type |-> "resource_initialized", resource |-> "ec2",
               detectionStatus |-> "complete", reportStatus |-> Undefined],
     guA  |-> [type |-> "resource_group_update",
               data |-> {[resources |->
                   << [k |-> "ec2", v |-> GroupEntry("completed", {D2}, {"report"})],
                      [k |-> "s3", v |-> GroupEntry("pending", {}, {})] >>]}],
     guB  |-> [type |-> "resource_group_update",
               data |-> {[resources |->
                   << [k |-> "ec2", v |-> GroupEntry("processing", {}, {})] >>]}],
     guC  |-> [type |-> "resource_group_update",
               data |-> {[resources |->
                   << [k |-> "ec2", v |-> GroupEntry("completed", {}, {})] >>]}],
     guD  |-> [type |-> "resource_group_update",
               data |-> {[resources |->
                   << [k |-> "s3", v |-> GroupEntry(Undefined, {D0}, {})] >>]}],
     guE  |-> [type |-> "resource_group_update", data |-> {}],
     guF  |-> [type |-> "resource_group_update",
               data |-> {[resources |->
                   << [k |-> "ec2", v |-> GroupEntry("processing", {DCount3}, {})] >>]}],
     guS  |-> [type |-> "resource_group_update",
               data |-> {[resources |->
                   << [k |-> "ec2", v |-> GroupEntry("pending", {}, {})],
                      [k |-> "s3", v |-> GroupEntry("completed", {D2}, {"report"})] >>]}],
     guZ  |-> [type |-> "resource_group_update",
               data |-> {[resources |->
                   << [k |-> "ec2", v |-> GroupEntry("completed", {D0}, {"report"})],
                      [k |-> "s3", v |-> GroupEntry("completed", {D0}, {"report"})] >>]}],
     guN  |-> [type |-> "resource_group_update",
               data |-> {[resources |->
                   << [k |-> "ec2", v |-> GroupEntry("pending", {}, {})],
                      [k |-> "s3", v |-> GroupEntry("pending", {}, {})] >>]}],
     dc1  |-> [type |-> "detection_complete", resource |-> "ec2", results |-> {D2}],
     dc2  |-> [type |-> "detection_complete", resource |-> "s3", results |-> {D0}],
     dc3  |-> [type |-> "detection_complete", resource |-> "ec2", results |-> {D2of5}],
     dc4  |-> [type |-> "detection_complete", resource |-> "s3", results |-> {DCount3}],
     rc1  |-> [type |-> "report_complete", resource |-> "ec2", results |-> {"report"}],
     rc2  |-> [type |-> "report_complete", resource |-> "s3", results |-> {"report"}],
     ac   |-> [type |-> "analysis_complete"],
     er   |-> [type |-> "error", error |-> "backend error"],
     uk   |-> [type |-> "heartbeat"]]

AllCodes == DOMAIN EventTable

\* the events the multi-session specification draws from
LiteCodes == {"dc1", "er"}

----------------------------------------------------------------------------
(* DriftAssistProvider.handleStreamingUpdate: the reducer *)

TheOne(o) == CHOOSE x \in o : TRUE

\* case 'session_initialized' / 'analysis_started': the new analysisResults
SessionInitialized(ar, data) ==
    [ar EXCEPT !.status = "session_initialized", !.session_dir = data.session_dir]

AnalysisStarted(ar, data) ==
    [ar EXCEPT !.status = "started", !.resources = {data.resources}]

\* case 'resource_initialized': the new resourceResults
ResourceInitialized(rr, data) ==
    Put(rr, data.resource,
        [status |-> "initialized",
         detectionStatus |-> OrElse(data.detectionStatus, "pending"),
         reportStatus |-> OrElse(data.reportStatus, "pending"),
         detectionResults |-> {}, reportResults |-> {}])

\* the display order taken from every batch
GroupResourcesFromBatch(ar, group) == [ar EXCEPT !.resources = {Keys(group)}]

\* case 'resource_group_update': resources: prev.resources || Object.keys(...)
GroupResources(ar, group) ==
    [ar EXCEPT !.resources = IF IsPresent(ar.resources) THEN ar.resources ELSE {Keys(group)}]

\* the entry stored for one resource of the batch
GroupResult(resourceData) ==
    LET hasDetectionResults ==
            /\ IsPresent(resourceData.drift_result)
            /\ \/ IsPresent(TheOne(resourceData.drift_result).drifts)
               \/ TheOne(resourceData.drift_result).has_drift # Undefined
        hasReport == IsPresent(resourceData.report)
        isCompleted == resourceData.status = "completed"
    IN [status |-> OrElse(resourceData.status, "processing"),
        detectionStatus |-> IF isCompleted \/ hasDetectionResults THEN "complete" ELSE "pending",
        reportStatus |-> IF isCompleted \/ hasReport THEN "complete" ELSE "pending",
        detectionResults |-> resourceData.drift_result,
        reportResults |-> resourceData.report]

\* Object.entries(data.data.resources).forEach(...)
RECURSIVE GroupUpdate(_, _)
GroupUpdate(rr, group) ==
    IF group = <<>> THEN rr
    ELSE GroupUpdate(Put(rr, Head(group).k, GroupResult(Head(group).v)), Tail(group))

\* the event ignored for a resource that has no entry yet
DetectionCompleteKnownOnly(rr, data) ==
    IF Has(rr, data.resource)
    THEN [i \in 1..Len(rr) |->
            IF rr[i].k = data.resource
            THEN [k |-> rr[i].k,
                  v |-> [rr[i].v EXCEPT !.detectionStatus = "complete",
                                        !.detectionResults = data.results]]
            ELSE rr[i]]
    ELSE rr

\* case 'detection_complete' / 'report_complete': the new resourceResults
DetectionComplete(rr, data) ==
    Put(rr, data.resource,
        [ResourceOf(rr, data.resource) EXCEPT
            !.detectionStatus = "complete", !.detectionResults = data.results])

ReportComplete(rr, data) ==
    Put(rr, data.resource,
        [ResourceOf(rr, data.resource) EXCEPT
            !.reportStatus = "complete", !.reportResults = data.results])

\* the switch of handleStreamingUpdate on one stored session
ApplyEvent(session, data) ==
    CASE data.type = "session_initialized" ->
            [session EXCEPT !.analysisResults = SessionInitialized(@, data),
                            !.def = @ \cup {"analysisResults"}]
      [] data.type = "analysis_started" ->
            [session EXCEPT !.analysisResults = AnalysisStarted(@, data),
                            !.def = @ \cup {"analysisResults"}]
      [] data.type = "resource_initialized" ->
            [session EXCEPT !.resourceResults = ResourceInitialized(@, data),
                            !.def = @ \cup {"resourceResults"}]
      [] data.type = "resource_group_update" ->
            IF IsPresent(data.data)
            THEN [session EXCEPT
                    !.analysisResults = GroupResources(@, TheOne(data.data).resources),
                    !.resourceResults = GroupUpdate(@, TheOne(data.data).resources),
                    !.def = @ \cup {"analysisResults", "resourceResults"}]
            ELSE session
      [] data.type = "detection_complete" ->
            [session EXCEPT !.resourceResults = DetectionComplete(@, data),
                            !.def = @ \cup {"resourceResults"}]
      [] data.type = "report_complete" ->
            [session EXCEPT !.resourceResults = ReportComplete(@, data),
                            !.def = @ \cup {"resourceResults"}]
      [] data.type = "analysis_complete" ->
            [session EXCEPT !.analysisComplete = TRUE, !.isAnalyzing = FALSE,
                            !.def = @ \cup {"analysisComplete", "isAnalyzing"}]
      [] data.type = "error" ->
            [session EXCEPT !.error = data.error, !.isAnalyzing = FALSE,
                            !.def = @ \cup {"error", "isAnalyzing"}]
      [] OTHER -> session

\* the update applied to the session on display instead of the stream's own session
handleStreamingUpdateCurrent(ss, sid, data) ==
    LET cur == IF currentSession = <<>> THEN sid ELSE currentSession[1].id
    IN IF cur \notin DOMAIN ss THEN ss ELSE WithSession(ss, cur, ApplyEvent(ss[cur], data))

\* setSessions(prev => ...) of handleStreamingUpdate
handleStreamingUpdate(ss, sid, data) ==
    IF sid \notin DOMAIN ss THEN ss ELSE WithSession(ss, sid, ApplyEvent(ss[sid], data))

\* delete activeStreams.current[sessionId] in the analysis_complete and error cases
ReleaseOnEvent(ss, as, sid, data) ==
    IF sid \in DOMAIN ss /\ data.type \in {"analysis_complete", "error"}
    THEN Without(as, sid) ELSE as

\* the events of one chunk applied from the last line to the first
RECURSIVE ApplyAllBackwards(_, _, _, _)
ApplyAllBackwards(ss, as, sid, codes) ==
    IF codes = <<>> THEN <<ss, as>>
    ELSE ApplyAllBackwards(handleStreamingUpdate(ss, sid, EventTable[codes[Len(codes)]]),
                           ReleaseOnEvent(ss, as, sid, EventTable[codes[Len(codes)]]),
                           sid, SubSeq(codes, 1, Len(codes) - 1))

\* the events of one chunk, applied in order: <<sessions, activeStreams>> afterwards
RECURSIVE ApplyAll(_, _, _, _)
ApplyAll(ss, as, sid, codes) ==
    IF codes = <<>> THEN <<ss, as>>
    ELSE ApplyAll(handleStreamingUpdate(ss, sid, EventTable[Head(codes)]),
                  ReleaseOnEvent(ss, as, sid, EventTable[Head(codes)]),
                  sid, Tail(codes))

----------------------------------------------------------------------------
(* The event decoder of the read loop *)

DataPrefix == <<"d", "a", "t", "a", ":", " ">>

\* the line the backend writes for an event, and a data line whose JSON is cut short
WireLine(code) == DataPrefix \o <<"{", code, "}", "\n">>
BadLine == DataPrefix \o <<"{", "\n">>

RECURSIVE WireText(_)
WireText(lines) == IF lines = <<>> THEN <<>> ELSE Head(lines) \o WireText(Tail(lines))

\* chunk.split('\n')
RECURSIVE SplitFrom(_, _)
SplitFrom(text, line) ==
    IF text = <<>> THEN <<line>>
    ELSE IF Head(text) = "\n" THEN <<line>> \o SplitFrom(Tail(text), <<>>)
    ELSE SplitFrom(Tail(text), Append(line, Head(text)))

Split(chunk) == SplitFrom(chunk, <<>>)

\* line.startsWith('data: ')
StartsWithData(line) == Len(line) >= 6 /\ SubSeq(line, 1, 6) = DataPrefix

\* JSON.parse(text): {} when it throws, else the parsed object's name
JsonParse(text) ==
    IF Len(text) = 3 /\ text[1] = "{" /\ text[3] = "}" /\ text[2] \in AllCodes
    THEN {text[2]} ELSE {}

\* for (const line of lines) ...: the events handed to handleStreamingUpdate
RECURSIVE DecodeLines(_)
DecodeLines(lines) ==
    IF lines = <<>> THEN <<>>
    ELSE LET line == Head(lines)
             parsed == IF StartsWithData(line)
                       THEN JsonParse(SubSeq(line, 7, Len(line))) ELSE {}
         IN (IF IsPresent(parsed) THEN <<TheOne(parsed)>> ELSE <<>>)
            \o DecodeLines(Tail(lines))

DecodeChunk(chunk) == DecodeLines(Split(chunk))

\* chunks that hold whole lines: up to n event lines of the given events
AlignedChunks(codes, n) ==
    UNION { { WireText([i \in 1..k |-> WireLine(cs[i])]) : cs \in [1..k -> codes] }
            : k \in 1..n }

----------------------------------------------------------------------------
(* DriftAssistProvider: startAnalysis and its stream driver *)

FileNames == {<<"a.tf">>, <<"b.tf">>}
BackendSession == <<"sess">>

generateSessionId(fileName, backendSessionId, instant) ==
    fileName \o <<"_">> \o backendSessionId \o <<"_", ToString(instant)>>

NewSession(sid, fileName, instant) ==
    [def |-> AllFields, id |-> sid, fileName |-> fileName,
     analysisResults |-> [status |-> Undefined, session_dir |-> Undefined, resources |-> {}],
     resourceResults |-> <<>>, isAnalyzing |-> TRUE, analysisComplete |-> FALSE,
     hasStarted |-> TRUE, error |-> Null, timestamp |-> instant]

NewTask(sid) == [sid |-> sid, pc |-> "fetch", aborted |-> FALSE, reads |-> 0, stopped |-> "no"]

Live(t) == t \in DOMAIN tasks /\ tasks[t].pc # "done"

\* the failure recorded on a record emptied of its results
FailedAndCleared(ss, sid, msg) ==
    WithSession(ss, sid,
        [SessionOf(ss, sid) EXCEPT !.error = msg, !.isAnalyzing = FALSE,
                                   !.resourceResults = <<>>,
                                   !.def = @ \cup {"error", "isAnalyzing"}])

\* {...prev[sid], error: msg, isAnalyzing: false}
Failed(ss, sid, msg) ==
    WithSession(ss, sid,
        [SessionOf(ss, sid) EXCEPT !.error = msg, !.isAnalyzing = FALSE,
                                   !.def = @ \cup {"error", "isAnalyzing"}])

\* startAnalysis up to the await of fetch
StartAnalysis(fileName, maxTasks) ==
    /\ Len(tasks) < maxTasks
    /\ LET sid == generateSessionId(fileName, BackendSession, now)
           newSession == NewSession(sid, fileName, now)
       IN /\ sessions' = WithSession(sessions, sid, newSession)
          /\ currentSession' = <<newSession>>
          /\ tasks' = Append(tasks, NewTask(sid))
    /\ UNCHANGED <<activeStreams, now, wire, comp, runs>>

\* the response is ok and has a body: the handle is registered, readStream starts
FetchOk(t) ==
    /\ t \in DOMAIN tasks /\ tasks[t].pc = "fetch"
    /\ activeStreams' = [x \in (DOMAIN activeStreams) \cup {tasks[t].sid} |->
                            IF x = tasks[t].sid THEN t ELSE activeStreams[x]]
    /\ tasks' = [tasks EXCEPT ![t].pc = "read"]
    /\ UNCHANGED <<sessions, currentSession, now, wire, comp, runs>>

Failures == {"Failed to fetch"}

\* fetch throws, the response is not ok, or it has no body: the outer catch
FetchFail(t, msg) ==
    /\ t \in DOMAIN tasks /\ tasks[t].pc = "fetch"
    /\ sessions' = Failed(sessions, tasks[t].sid, msg)
    /\ tasks' = [tasks EXCEPT ![t].pc = "done"]
    /\ UNCHANGED <<currentSession, activeStreams, now, wire, comp, runs>>

\* the body of a response that is not ok: {} when response.json() throws, else the
\* parsed object
ErrorBodies ==
    { {},
      {[details |-> Undefined, error |-> Undefined]},
      {[details |-> Undefined, error |-> "backend error"]},
      {[details |-> "backend details", error |-> "backend error"]} }

StatusText(status) ==
    CASE status = 423 -> "Locked"
      [] status = 401 -> "Unauthorized"
      [] status = 403 -> "Forbidden"
      [] OTHER -> "Internal Server Error"

\* errorData.details || errorData.error || `Analysis failed with status ${status}`
ErrorMessage(status, body) ==
    LET errorData ==
            IF body = {}
            THEN [details |-> Undefined,
                  error |-> "HTTP " \o ToString(status) \o ": " \o StatusText(status)]
            ELSE TheOne(body)
    IN OrElse(errorData.details,
              OrElse(errorData.error, "Analysis failed with status " \o ToString(status)))

\* !response.ok: the message is built from the body and thrown to the outer catch
FetchRejected(t, status, body) ==
    /\ t \in DOMAIN tasks /\ tasks[t].pc = "fetch"
    /\ sessions' = Failed(sessions, tasks[t].sid, ErrorMessage(status, body))
    /\ tasks' = [tasks EXCEPT ![t].pc = "done"]
    /\ UNCHANGED <<currentSession, activeStreams, now, wire, comp, runs>>

\* one turn of the read loop: reader.read() gives a chunk, its lines are decoded and applied
ReadChunk(t, chunk, maxReads) ==
    /\ t \in DOMAIN tasks /\ tasks[t].pc = "read" /\ ~tasks[t].aborted
    /\ tasks[t].reads < maxReads
    /\ LET after == ApplyAll(sessions, activeStreams, tasks[t].sid, DecodeChunk(chunk))
       IN /\ sessions' = after[1]
          /\ activeStreams' = after[2]
    /\ tasks' = [tasks EXCEPT ![t].reads = @ + 1]
    /\ UNCHANGED <<currentSession, now, comp, runs>>

\* reader.read() reports done, or rejects with AbortError: only the finally block acts
ReadDone(t) ==
    /\ t \in DOMAIN tasks /\ tasks[t].pc = "read"
    /\ activeStreams' = Without(activeStreams, tasks[t].sid)
    /\ tasks' = [tasks EXCEPT ![t].pc = "done"]
    /\ UNCHANGED <<sessions, currentSession, now, wire, comp, runs>>

\* reader.read() rejects with another error: the inner catch, then the finally block
ReadError(t, msg) ==
    /\ t \in DOMAIN tasks /\ tasks[t].pc = "read" /\ ~tasks[t].aborted
    /\ sessions' = Failed(sessions, tasks[t].sid, msg)
    /\ activeStreams' = Without(activeStreams, tasks[t].sid)
    /\ tasks' = [tasks EXCEPT ![t].pc = "done"]
    /\ UNCHANGED <<currentSession, now, wire, comp, runs>>

----------------------------------------------------------------------------
(* DriftAssistProvider: the life-cycle operations *)

\* what stopAnalysis finds of each driver of sid (history, read by the properties only)
StopMark(as, t, task, sid) ==
    IF task.sid = sid /\ task.pc # "done" /\ task.stopped = "no"
    THEN [task EXCEPT !.stopped =
            IF task.pc = "fetch" THEN "prefetch"
            ELSE IF sid \in DOMAIN as /\ as[sid] = t THEN "handle" ELSE "nohandle"]
    ELSE task

\* the handle dropped without cancelling its reader
AbortStreamForgotten(ts, as, sid) == ts

\* abortController.abort(); reader.cancel() on the registered handle
AbortStream(ts, as, sid) ==
    IF sid \in DOMAIN as
    THEN [ts EXCEPT ![as[sid]].aborted = TRUE]
    ELSE ts

\* the stop recorded as a failure
StoppedSessionAsFailure(ss, sid) ==
    WithSession(ss, sid,
        [SessionOf(ss, sid) EXCEPT !.isAnalyzing = FALSE, !.error = "Analysis stopped",
                                   !.def = @ \cup {"isAnalyzing", "error"}])

StoppedSession(ss, sid) ==
    WithSession(ss, sid,
        [SessionOf(ss, sid) EXCEPT !.isAnalyzing = FALSE, !.def = @ \cup {"isAnalyzing"}])

stopAnalysis(sid) ==
    /\ tasks' = AbortStream([t \in DOMAIN tasks |-> StopMark(activeStreams, t, tasks[t], sid)],
                            activeStreams, sid)
    /\ activeStreams' = Without(activeStreams, sid)
    /\ sessions' = StoppedSession(sessions, sid)
    /\ UNCHANGED <<currentSession, now, wire, comp, runs>>

\* clearSession: stopAnalysis(sid), then the id deleted from the store, then
\* setCurrentSession(null) if the session on display is this one
clearSession(sid) ==
    /\ tasks' = AbortStream([t \in DOMAIN tasks |-> StopMark(activeStreams, t, tasks[t], sid)],
                            activeStreams, sid)
    /\ activeStreams' = Without(activeStreams, sid)
    /\ sessions' = Without(StoppedSession(sessions, sid), sid)
    /\ currentSession' = IF currentSession # <<>> /\ currentSession[1].id = sid
                         THEN <<>> ELSE currentSession
    /\ UNCHANGED <<now, wire, comp, runs>>

\* Object.keys(activeStreams.current).forEach(stopAnalysis): every registered handle
\* is aborted
StopAll(ts, as) ==
    [t \in DOMAIN ts |->
        IF ts[t].sid \in DOMAIN as
        THEN LET marked == StopMark(as, t, ts[t], ts[t].sid)
             IN IF as[ts[t].sid] = t THEN [marked EXCEPT !.aborted = TRUE] ELSE marked
        ELSE ts[t]]

\* clearAllSessions: the handles stopped, then setSessions({}), setCurrentSession(null)
clearAllSessions ==
    /\ tasks' = StopAll(tasks, activeStreams)
    /\ activeStreams' = <<>>
    /\ sessions' = <<>>
    /\ currentSession' = <<>>
    /\ UNCHANGED <<now, wire, comp, runs>>

\* the session put on display whatever the id
ResumedUnchecked(ss, cur, sid) == <<SessionOf(ss, sid)>>

\* resumeAnalysis: currentSession afterwards
Resumed(ss, cur, sid) == IF sid \in DOMAIN ss THEN <<ss[sid]>> ELSE cur

\* resumeAnalysis: the value returned, <<>> for null
ResumeReturn(ss, sid) == IF sid \in DOMAIN ss THEN <<ss[sid]>> ELSE <<>>

resumeAnalysis(sid) ==
    /\ currentSession' = Resumed(sessions, currentSession, sid)
    /\ UNCHANGED <<sessions, activeStreams, tasks, now, wire, comp, runs>>

ErrorSession(ss, sid, msg) == Failed(ss, sid, msg)

setAnalysisError(sid, msg) ==
    /\ sessions' = ErrorSession(sessions, sid, msg)
    /\ UNCHANGED <<currentSession, activeStreams, tasks, now, wire, comp, runs>>

CompletedSession(ss, sid) ==
    WithSession(ss, sid,
        [SessionOf(ss, sid) EXCEPT !.analysisComplete = TRUE, !.isAnalyzing = FALSE,
                                   !.def = @ \cup {"analysisComplete", "isAnalyzing"}])

setAnalysisComplete(sid) ==
    /\ sessions' = CompletedSession(sessions, sid)
    /\ UNCHANGED <<currentSession, activeStreams, tasks, now, wire, comp, runs>>

\* time passes between two calls of Date.now()
Tick ==
    /\ now < MaxClock
    /\ now' = now + 1
    /\ UNCHANGED <<sessions, currentSession, activeStreams, tasks, wire, comp, runs>>

----------------------------------------------------------------------------------------------------------------------------------------------
(* The provider with several sessions *)

\* the chunks the backend sends in this specification
LiteChunks == AlignedChunks(LiteCodes, MaxChunkLines)

NoWire == [lines |-> <<>>, pos |-> 0, handed |-> <<>>]

CompInit ==
    [analysisResults |-> [status |-> Undefined, session_dir |-> Undefined, resources |-> {}],
     resourceResults |-> <<>>, isAnalyzing |-> FALSE, error |-> Null,
     analysisComplete |-> FALSE, hasStarted |-> FALSE, analysisStartedRef |-> FALSE,
     effectPending |-> TRUE, retries |-> 0]

Init ==
    /\ sessions = <<>>
    /\ currentSession = <<>>
    /\ activeStreams = <<>>
    /\ tasks = <<>>
    /\ now = 0
    /\ wire = NoWire
    /\ comp = CompInit
    /\ runs = <<>>

Next ==
    \/ \E f \in FileNames : StartAnalysis(f, MaxTasks)
    \/ \E t \in DOMAIN tasks : FetchOk(t)
    \/ \E t \in DOMAIN tasks, msg \in Failures : FetchFail(t, msg)
    \/ \E t \in DOMAIN tasks, chunk \in LiteChunks :
            ReadChunk(t, chunk, MaxReads) /\ UNCHANGED wire
    \/ \E t \in DOMAIN tasks : ReadDone(t)
    \/ \E t \in DOMAIN tasks, msg \in Failures : ReadError(t, msg)
    \/ \E sid \in DOMAIN sessions : stopAnalysis(sid)
    \/ \E sid \in DOMAIN sessions, msg \in Failures : setAnalysisError(sid, msg)
    \/ \E sid \in DOMAIN sessions : setAnalysisComplete(sid)
    \/ Tick

Spec == Init /\ [][Next]_vars

----------------------------------------------------------------------------
(* Properties of the provider with several sessions *)

SidOf(t) == tasks[t].sid

\* C1: once stopAnalysis has found and cancelled a driver's registered handle, no later
\* step of that driver (a delivered chunk, the end of the stream) changes the
\* session's resourceResults.
C1_NoMutationAfterStop ==
    [][\A t \in DOMAIN tasks :
         (tasks[t].stopped = "handle" /\ tasks'[t] # tasks[t])
            => SessionOf(sessions', SidOf(t)).resourceResults
                 = SessionOf(sessions, SidOf(t)).resourceResults]_vars

C1_Witness ==
    \E t \in DOMAIN tasks :
        /\ tasks[t].stopped = "handle" /\ tasks[t].pc = "done" /\ tasks[t].reads > 0
        /\ SessionOf(sessions, SidOf(t)).resourceResults # <<>>

\* C2: when stopAnalysis ran while a driver was still awaiting the response of its POST,
\* no chunk that driver reads later changes the session (analysisResults,
\* resourceResults, analysisComplete, error).
C2_NoEventAfterEarlyStop ==
    [][\A t \in DOMAIN tasks :
         (tasks[t].stopped = "prefetch" /\ tasks'[t].reads # tasks[t].reads)
            => LET before == SessionOf(sessions, SidOf(t))
                   after == SessionOf(sessions', SidOf(t))
               IN /\ after.analysisResults = before.analysisResults
                  /\ after.resourceResults = before.resourceResults
                  /\ after.analysisComplete = before.analysisComplete
                  /\ after.error = before.error]_vars

\* a step taken for session A
StepFor(A) ==
    \/ stopAnalysis(A)
    \/ \E msg \in Failures : setAnalysisError(A, msg)
    \/ setAnalysisComplete(A)
    \/ \E t \in DOMAIN tasks :
         /\ tasks[t].sid = A
         /\ \/ FetchOk(t)
            \/ \E msg \in Failures : FetchFail(t, msg)
            \/ \E chunk \in LiteChunks :
                    ReadChunk(t, chunk, MaxReads)
            \/ ReadDone(t)
            \/ \E msg \in Failures : ReadError(t, msg)

\* C8: a step taken for session A (an applied chunk, a failure, stopAnalysis,
\* setAnalysisError, setAnalysisComplete) leaves the record of every other session B
\* as it was.
C8_SessionIndependence ==
    [][\A A \in DOMAIN sessions :
         StepFor(A) => \A B \in (DOMAIN sessions) \ {A} :
                          B \in DOMAIN sessions' /\ sessions'[B] = sessions[B]]_vars

C8_Witness ==
    \E t1, t2 \in DOMAIN tasks :
        /\ SidOf(t1) # SidOf(t2)
        /\ tasks[t1].reads > 0 /\ tasks[t2].reads > 0
        /\ sessions[SidOf(t1)].resourceResults # <<>>
        /\ sessions[SidOf(t2)].error # Null

\* C9: no two live drivers (awaiting the response or reading) belong to the same
\* session id.
C9_SingleDriver ==
    \A t1, t2 \in DOMAIN tasks :
        (t1 # t2 /\ SidOf(t1) = SidOf(t2)) => ~(Live(t1) /\ Live(t2))

\* C16: stopAnalysis on a stored session sets its isAnalyzing to false, leaves no
\* handle registered for it, and leaves its error, analysisComplete, analysisResults
\* and resourceResults as they were; and the step by which an aborted reader ends
\* leaves the session's error as it was.
C16_StopFrame ==
    [][/\ \A sid \in DOMAIN sessions :
            stopAnalysis(sid)
                => /\ ~sessions'[sid].isAnalyzing
                   /\ sid \notin DOMAIN activeStreams'
                   /\ sessions'[sid].error = sessions[sid].error
                   /\ sessions'[sid].analysisComplete = sessions[sid].analysisComplete
                   /\ sessions'[sid].analysisResults = sessions[sid].analysisResults
                   /\ sessions'[sid].resourceResults = sessions[sid].resourceResults
       /\ \A t \in DOMAIN tasks :
            (tasks[t].aborted /\ tasks'[t] # tasks[t])
                => SessionOf(sessions', SidOf(t)).error = SessionOf(sessions, SidOf(t)).error]_vars

\* a stream stopped after it delivered results: its reader has ended, and the session
\* is neither analyzing nor failed
C16_Witness ==
    \E t \in DOMAIN tasks :
        /\ tasks[t].aborted /\ tasks[t].pc = "done" /\ tasks[t].reads > 0
        /\ SidOf(t) \notin DOMAIN activeStreams
        /\ ~sessions[SidOf(t)].isAnalyzing
        /\ sessions[SidOf(t)].error = Null
        /\ sessions[SidOf(t)].resourceResults # <<>>

\* C22: a driver holds the registered handle of its session exactly while its reader
\* is being pumped (reading, not aborted): no handle is left after the reader ended
\* or was stopped, and no reader goes on reading after its handle was dropped.
C22_HandleLifetime ==
    \A t \in DOMAIN tasks :
        (tasks[t].pc = "read" /\ ~tasks[t].aborted)
            <=> (SidOf(t) \in DOMAIN activeStreams /\ activeStreams[SidOf(t)] = t)

----------------------------------------------------------------------------
(* The reducer under every event of the protocol: one session, one stream *)

FullChunks == AlignedChunks(AllCodes, 1)

NextReducer ==
    \/ \E f \in FileNames : StartAnalysis(f, 1)
    \/ \E t \in DOMAIN tasks : FetchOk(t)
    \/ \E t \in DOMAIN tasks, chunk \in FullChunks :
            ReadChunk(t, chunk, MaxEvents) /\ UNCHANGED wire
    \/ \E t \in DOMAIN tasks : ReadDone(t)

SpecReducer == Init /\ [][NextReducer]_vars

Tracked(ss, sid, r) == sid \in DOMAIN ss /\ Has(ss[sid].resourceResults, r)

\* C3: once a resource's detectionStatus (reportStatus) is 'complete', no step sets it
\* to 'pending'.
C3_StatusMonotonic ==
    [][\A sid \in DOMAIN sessions, r \in Resources :
         (Tracked(sessions, sid, r) /\ Tracked(sessions', sid, r))
            => LET before == Lookup(sessions[sid].resourceResults, r)
                   after == Lookup(sessions'[sid].resourceResults, r)
               IN /\ before.detectionStatus = "complete" => after.detectionStatus # "pending"
                  /\ before.reportStatus = "complete" => after.reportStatus # "pending"]_vars

\* C4: a tracked resource whose detectionStatus is 'complete' has detectionResults, and
\* one whose reportStatus is 'complete' has reportResults.
C4_CompleteHasResults ==
    \A sid \in DOMAIN sessions, r \in Resources :
        Tracked(sessions, sid, r)
            => LET res == Lookup(sessions[sid].resourceResults, r)
               IN /\ res.detectionStatus = "complete" => IsPresent(res.detectionResults)
                  /\ res.reportStatus = "complete" => IsPresent(res.reportResults)

\* C5: a resource that has detectionResults (reportResults) stored still has them after
\* every later step.
C5_ResultsNeverCleared ==
    [][\A sid \in DOMAIN sessions, r \in Resources :
         Tracked(sessions, sid, r)
            => LET before == Lookup(sessions[sid].resourceResults, r)
                   after == ResourceOf(SessionOf(sessions', sid).resourceResults, r)
               IN /\ IsPresent(before.detectionResults) => IsPresent(after.detectionResults)
                  /\ IsPresent(before.reportResults) => IsPresent(after.reportResults)]_vars

\* C11: in every reachable state of a session, for every event of the protocol,
\* applying the event twice in succession gives the same store as applying it once.
C11_IdempotentReplay ==
    \A sid \in DOMAIN sessions, c \in AllCodes :
        LET once == handleStreamingUpdate(sessions, sid, EventTable[c])
        IN handleStreamingUpdate(once, sid, EventTable[c]) = once

\* a session built by three events, on which an event still changes something
C11_Witness ==
    \E t \in DOMAIN tasks :
        /\ tasks[t].reads = MaxEvents
        /\ Len(sessions[SidOf(t)].resourceResults) = 2
        /\ IsPresent(sessions[SidOf(t)].analysisResults.resources)
        /\ \E c \in AllCodes :
              handleStreamingUpdate(sessions, SidOf(t), EventTable[c]) # sessions

CompleteCodes == {"dc1", "dc2", "rc1", "rc2"}

\* C12: in every reachable state, a detection_complete (report_complete) event for a
\* resource that has no entry creates the entry with detectionStatus (reportStatus)
\* 'complete' and the payload's results, and leaves error, isAnalyzing and the
\* registered stream handle as they were.
C12_OutOfOrderCreates ==
    \A sid \in DOMAIN sessions, c \in CompleteCodes :
        LET data == EventTable[c]
            after == handleStreamingUpdate(sessions, sid, data)[sid]
            entry == Lookup(after.resourceResults, data.resource)
        IN ~Tracked(sessions, sid, data.resource)
            => /\ Has(after.resourceResults, data.resource)
               /\ data.type = "detection_complete"
                    => entry.detectionStatus = "complete" /\ entry.detectionResults = data.results
               /\ data.type = "report_complete"
                    => entry.reportStatus = "complete" /\ entry.reportResults = data.results
               /\ after.error = sessions[sid].error
               /\ after.isAnalyzing = sessions[sid].isAnalyzing
               /\ ReleaseOnEvent(sessions, activeStreams, sid, data) = activeStreams

\* a stream whose first event was detection_complete for ec2: the entry exists, is
\* complete, and the stream is still being read
C12_Witness ==
    \E t \in DOMAIN tasks :
        /\ tasks[t].pc = "read" /\ tasks[t].reads = 1
        /\ SidOf(t) \in DOMAIN activeStreams
        /\ Tracked(sessions, SidOf(t), "ec2")
        /\ Lookup(sessions[SidOf(t)].resourceResults, "ec2").status = Undefined
        /\ Lookup(sessions[SidOf(t)].resourceResults, "ec2").detectionStatus = "complete"
        /\ sessions[SidOf(t)].error = Null /\ sessions[SidOf(t)].isAnalyzing


\* C21: once analysisResults.resources of a session is set, no later event (another
\* analysis_started, a resource_group_update) changes it.
C21_OrderFirstWriterWins ==
    [][\A sid \in DOMAIN sessions :
         IsPresent(sessions[sid].analysisResults.resources)
            => SessionOf(sessions', sid).analysisResults.resources
                 = sessions[sid].analysisResults.resources]_vars

\* the detection result (the report) of a batch entry has content
NonEmptyResult(dr) ==
    /\ IsPresent(dr)
    /\ \/ IsPresent(TheOne(dr).drifts)
       \/ TheOne(dr).drift_count # {}
       \/ TheOne(dr).has_drift # Undefined

\* C23: in every reachable state, for every resource_group_update and every entry of
\* its batch, the entry stored has detectionStatus 'complete' if the entry's status
\* is 'completed' or its drift_result has content and 'pending' otherwise,
\* reportStatus likewise from the report, and status the payload's status or
\* 'processing' when it has none.
C23_GroupDerivation ==
    \A sid \in DOMAIN sessions, c \in AllCodes :
        (EventTable[c].type = "resource_group_update" /\ IsPresent(EventTable[c].data))
            => LET group == TheOne(EventTable[c].data).resources
                   after == handleStreamingUpdate(sessions, sid, EventTable[c])[sid]
               IN \A i \in DOMAIN group :
                    LET payload == group[i].v
                        stored == Lookup(after.resourceResults, group[i].k)
                    IN /\ stored.detectionStatus =
                            (IF payload.status = "completed" \/ NonEmptyResult(payload.drift_result)
                             THEN "complete" ELSE "pending")
                       /\ stored.reportStatus =
                            (IF payload.status = "completed" \/ IsPresent(payload.report)
                             THEN "complete" ELSE "pending")
                       /\ stored.status = OrElse(payload.status, "processing")

\* C26: no step leaves a session both failed (error set) and complete: a session
\* that has an error is not marked complete afterwards, and a complete session gets
\* no error afterwards.
C26_TerminalExclusive ==
    [][\A sid \in DOMAIN sessions :
         LET before == sessions[sid]
             after == SessionOf(sessions', sid)
         IN /\ ~(after.error # Null /\ after.analysisComplete)
            /\ before.error # Null => ~after.analysisComplete
            /\ before.analysisComplete => after.error = Null]_vars

\* the same, where the runtime keeps running the driver: a response that can arrive
\* arrives, a stream that can be read or can end is read or ends
SpecReducerLive == SpecReducer /\ WF_vars(NextReducer)

\* C28: whenever the reader of a session has finished (and its handle is gone), the
\* session eventually has isAnalyzing = false.
C28_EventuallyNotAnalyzing ==
    \A t \in 1..MaxTasks :
        (IF t \in DOMAIN tasks
         THEN tasks[t].pc = "done" /\ SidOf(t) \notin DOMAIN activeStreams ELSE FALSE)
            ~> (IF t \in DOMAIN tasks THEN ~sessions[SidOf(t)].isAnalyzing ELSE FALSE)

----------------------------------------------------------------------------
(* The read loop over a response body that arrives in arbitrary chunks *)

\* the lines of a response body: event lines and data lines whose JSON is cut short
LineKinds == {"ri1", "dc1", "bad"}

LineText(kind) == IF kind = "bad" THEN BadLine ELSE WireLine(kind)

StreamText(lines) == WireText([i \in 1..Len(lines) |-> LineText(lines[i])])

Bodies == UNION { [1..k -> LineKinds] : k \in 1..MaxLines }

InitDecode ==
    /\ sessions = <<>>
    /\ currentSession = <<>>
    /\ activeStreams = <<>>
    /\ tasks = <<>>
    /\ now = 0
    /\ wire \in { [lines |-> ls, pos |-> 0, handed |-> <<>>] : ls \in Bodies }
    /\ comp = CompInit
    /\ runs = <<>>

\* reader.read() returns the next k bytes of the body
ReadBytes(t, k) ==
    LET text == StreamText(wire.lines)
        chunk == SubSeq(text, wire.pos + 1, wire.pos + k)
    IN /\ ReadChunk(t, chunk, Len(text))
       /\ wire' = [wire EXCEPT !.pos = @ + k, !.handed = @ \o DecodeChunk(chunk)]

NextDecode ==
    \/ \E f \in FileNames : StartAnalysis(f, 1)
    \/ \E t \in DOMAIN tasks : FetchOk(t)
    \/ \E t \in DOMAIN tasks, k \in 1..(Len(StreamText(wire.lines)) - wire.pos) : ReadBytes(t, k)
    \/ \E t \in DOMAIN tasks : wire.pos = Len(StreamText(wire.lines)) /\ ReadDone(t)

SpecDecode == InitDecode /\ [][NextDecode]_vars

Range(f) == { f[i] : i \in DOMAIN f }
IsEventLine(kind) == kind # "bad"

\* C6: when a body of well-formed event lines has been read to its end, the events
\* handed to handleStreamingUpdate are the emitted events, in order, each once,
\* however the body was cut into chunks.
C6_ChunkIndependent ==
    \A t \in DOMAIN tasks :
        (tasks[t].pc = "done" /\ "bad" \notin Range(wire.lines))
            => wire.handed = wire.lines

\* the well-formed event lines that follow the first unparseable line of the body
AfterBadLine(lines) ==
    LET i == CHOOSE j \in 1..Len(lines) :
                 lines[j] = "bad" /\ \A m \in 1..(j - 1) : lines[m] # "bad"
    IN SelectSeq(SubSeq(lines, i + 1, Len(lines)), IsEventLine)

EndsWith(seq, tail) ==
    /\ Len(tail) <= Len(seq)
    /\ SubSeq(seq, Len(seq) - Len(tail) + 1, Len(seq)) = tail

\* C7: when a body holding an unparseable data line has been read to its end, that
\* line has changed nothing (the session has no error and is still analyzing) and
\* every well-formed event line after it has been handed to handleStreamingUpdate.
C7_MalformedDropped ==
    \A t \in DOMAIN tasks :
        (tasks[t].pc = "done" /\ "bad" \in Range(wire.lines))
            => /\ sessions[SidOf(t)].error = Null
               /\ sessions[SidOf(t)].isAnalyzing
               /\ EndsWith(wire.handed, AfterBadLine(wire.lines))

\* a is b with some elements left out, the others in the same order
RECURSIVE IsSubSequence(_, _)
IsSubSequence(a, b) ==
    IF a = <<>> THEN TRUE
    ELSE IF b = <<>> THEN FALSE
    ELSE IF Head(a) = Head(b) THEN IsSubSequence(Tail(a), Tail(b))
    ELSE IsSubSequence(a, Tail(b))

\* the store after the given events, one after the other
RECURSIVE Folded(_, _, _)
Folded(ss, sid, codes) ==
    IF codes = <<>> THEN ss
    ELSE Folded(handleStreamingUpdate(ss, sid, EventTable[Head(codes)]), sid, Tail(codes))

\* C20: at every point of a stream, the events handed to the store are events of the
\* body in the order the backend wrote them (some may be missing, none is out of
\* order), and the session is the new session with exactly those events applied
\* one after the other, whatever the cut of the body into chunks.
C20_AppliedInOrder ==
    \A t \in DOMAIN tasks :
        tasks[t].pc # "fetch"
            => /\ IsSubSequence(wire.handed, SelectSeq(wire.lines, IsEventLine))
               /\ sessions = Folded(WithSession(<<>>, SidOf(t),
                                                NewSession(SidOf(t), sessions[SidOf(t)].fileName, now)),
                                    SidOf(t), wire.handed)

\* resource_initialized then detection_complete for ec2, read in two chunks and both
\* applied: the entry is initialized and its detection complete
C20_Witness ==
    \E t \in DOMAIN tasks :
        /\ tasks[t].pc = "done" /\ tasks[t].reads = 2
        /\ wire.lines = <<"ri1", "dc1">> /\ wire.handed = wire.lines
        /\ Lookup(sessions[SidOf(t)].resourceResults, "ec2").status = "initialized"
        /\ Lookup(sessions[SidOf(t)].resourceResults, "ec2").detectionStatus = "complete"

----------------------------------------------------------------------------
(* S3StreamingAnalysis: the component that runs the analysis in its own state *)

NoResults == [status |-> Undefined, session_dir |-> Undefined, resources |-> {}]

\* handleStreamingUpdate of the component: the same cases on the component's state
compHandleStreamingUpdate(c, data) ==
    CASE data.type = "session_initialized" ->
            [c EXCEPT !.analysisResults = SessionInitialized(@, data)]
      [] data.type = "analysis_started" ->
            [c EXCEPT !.analysisResults = AnalysisStarted(@, data)]
      [] data.type = "resource_initialized" ->
            [c EXCEPT !.resourceResults = ResourceInitialized(@, data)]
      [] data.type = "resource_group_update" ->
            IF IsPresent(data.data)
            THEN [c EXCEPT !.analysisResults = GroupResources(@, TheOne(data.data).resources),
                           !.resourceResults = GroupUpdate(@, TheOne(data.data).resources)]
            ELSE c
      [] data.type = "detection_complete" ->
            [c EXCEPT !.resourceResults = DetectionComplete(@, data)]
      [] data.type = "report_complete" ->
            [c EXCEPT !.resourceResults = ReportComplete(@, data)]
      [] data.type = "analysis_complete" -> [c EXCEPT !.analysisComplete = TRUE]
      [] data.type = "error" -> [c EXCEPT !.error = data.error]
      [] OTHER -> c

RECURSIVE CompApplyAll(_, _)
CompApplyAll(c, codes) ==
    IF codes = <<>> THEN c
    ELSE CompApplyAll(compHandleStreamingUpdate(c, EventTable[Head(codes)]), Tail(codes))

\* the next render: the mount effect is run again when one of its dependencies changed
Render(old, new) ==
    [new EXCEPT !.effectPending =
        old.effectPending \/ new.hasStarted # old.hasStarted
                          \/ new.isAnalyzing # old.isAnalyzing]

\* startAnalysis past its guard, up to the await of fetch
Started(c) ==
    [c EXCEPT !.analysisStartedRef = TRUE, !.hasStarted = TRUE, !.isAnalyzing = TRUE,
              !.error = Null, !.analysisResults = NoResults, !.resourceResults = <<>>,
              !.analysisComplete = FALSE]

\* a guard that looks at the ref only
StartGuardRefOnly(captured, c) == ~c.analysisStartedRef

\* the guard of startAnalysis: isAnalyzing and hasStarted are those of the render that
\* created the callback, the ref is read when it is called
StartGuard(captured, c) ==
    ~(captured.isAnalyzing \/ captured.hasStarted \/ c.analysisStartedRef)

\* attempt: the number of Retry clicks before the request was issued (history, read by
\* the properties only)
NewRun(attempt) == [pc |-> "fetch", reads |-> 0, attempt |-> attempt]

\* startAnalysis() called with the state `captured` in its closure
compStartAnalysis(captured, c) ==
    IF StartGuard(captured, c)
    THEN /\ Len(runs) < MaxRuns
         /\ comp' = Render(comp, Started(c))
         /\ runs' = Append(runs, NewRun(c.retries))
    ELSE /\ comp' = Render(comp, c)
         /\ UNCHANGED runs

\* useEffect(() => { if (analysisData && !hasStarted && !isAnalyzing) startAnalysis() })
MountEffect ==
    /\ comp.effectPending
    /\ LET c == [comp EXCEPT !.effectPending = FALSE]
       IN IF ~comp.hasStarted /\ ~comp.isAnalyzing
          THEN compStartAnalysis(comp, c)
          ELSE comp' = c /\ UNCHANGED runs
    /\ UNCHANGED <<sessions, currentSession, activeStreams, tasks, now, wire>>

CompFetchOk(r) ==
    /\ r \in DOMAIN runs /\ runs[r].pc = "fetch"
    /\ runs' = [runs EXCEPT ![r].pc = "read"]
    /\ UNCHANGED <<sessions, currentSession, activeStreams, tasks, now, wire, comp>>

RejectMessage(status) ==
    CASE status = 423 -> "Analysis already in progress for this file. Please wait for it to complete."
      [] status = 401 -> "Authentication failed. Your session may have expired. Please reconnect to your cloud environment."
      [] status = 403 -> "Access forbidden. Please check your permissions and try again."

RejectStatuses == {423, 401, 403}

\* response.status is 423, 401 or 403: setError, return, finally
CompFetchRejected(r, status) ==
    /\ r \in DOMAIN runs /\ runs[r].pc = "fetch"
    /\ comp' = Render(comp, [comp EXCEPT !.error = RejectMessage(status),
                                         !.isAnalyzing = FALSE])
    /\ runs' = [runs EXCEPT ![r].pc = "done"]
    /\ UNCHANGED <<sessions, currentSession, activeStreams, tasks, now, wire>>

\* the catch block, then the finally block
Caught(c, msg) ==
    [c EXCEPT !.error = msg, !.hasStarted = FALSE, !.analysisStartedRef = FALSE,
              !.isAnalyzing = FALSE]

\* fetch throws, another status is not ok, or the response has no body
CompFetchFail(r, msg) ==
    /\ r \in DOMAIN runs /\ runs[r].pc = "fetch"
    /\ comp' = Render(comp, Caught(comp, msg))
    /\ runs' = [runs EXCEPT ![r].pc = "done"]
    /\ UNCHANGED <<sessions, currentSession, activeStreams, tasks, now, wire>>

\* one turn of the read loop
CompReadChunk(r, chunk) ==
    /\ r \in DOMAIN runs /\ runs[r].pc = "read" /\ runs[r].reads < MaxReads
    /\ comp' = Render(comp, CompApplyAll(comp, DecodeChunk(chunk)))
    /\ runs' = [runs EXCEPT ![r].reads = @ + 1]
    /\ UNCHANGED <<sessions, currentSession, activeStreams, tasks, now, wire>>

\* reader.read() reports done: setAnalysisComplete(true), finally
CompReadDone(r) ==
    /\ r \in DOMAIN runs /\ runs[r].pc = "read"
    /\ comp' = Render(comp, [comp EXCEPT !.analysisComplete = TRUE, !.isAnalyzing = FALSE])
    /\ runs' = [runs EXCEPT ![r].pc = "done"]
    /\ UNCHANGED <<sessions, currentSession, activeStreams, tasks, now, wire>>

\* reader.read() rejects: the catch block, then the finally block
CompReadError(r, msg) ==
    /\ r \in DOMAIN runs /\ runs[r].pc = "read"
    /\ comp' = Render(comp, Caught(comp, msg))
    /\ runs' = [runs EXCEPT ![r].pc = "done"]
    /\ UNCHANGED <<sessions, currentSession, activeStreams, tasks, now, wire>>

\* the Retry button of the error view; effects of the last render have run before a click
handleRetry ==
    /\ comp.error # Null /\ ~comp.effectPending
    /\ compStartAnalysis(comp,
            [comp EXCEPT !.analysisStartedRef = FALSE, !.hasStarted = FALSE, !.error = Null,
                         !.analysisResults = NoResults, !.resourceResults = <<>>,
                         !.analysisComplete = FALSE, !.retries = @ + 1])
    /\ UNCHANGED <<sessions, currentSession, activeStreams, tasks, now, wire>>

NextComp ==
    \/ MountEffect
    \/ \E r \in DOMAIN runs : CompFetchOk(r)
    \/ \E r \in DOMAIN runs, status \in RejectStatuses : CompFetchRejected(r, status)
    \/ \E r \in DOMAIN runs, msg \in Failures : CompFetchFail(r, msg)
    \/ \E r \in DOMAIN runs, chunk \in LiteChunks : CompReadChunk(r, chunk)
    \/ \E r \in DOMAIN runs : CompReadDone(r)
    \/ \E r \in DOMAIN runs, msg \in Failures : CompReadError(r, msg)
    \/ handleRetry

SpecComp == Init /\ [][NextComp]_vars

\* C10: the component issues a request only on mount and once per click on Retry: the
\* number of requests never exceeds one plus the number of handleRetry calls.
C10_NoAutomaticRetry == Len(runs) <= 1 + comp.retries

\* the requests of the component that are in flight: awaiting the response or reading
InFlight == { r \in DOMAIN runs : runs[r].pc # "done" }

\* C25: the component never has more than one request or reader in flight.
C25_SingleFlight == Cardinality(InFlight) <= 1

\* Retry has been clicked while the stream of the previous request, which delivered an
\* 'error' event, is still being read
C25_Witness ==
    /\ comp.retries > 0
    /\ \E r \in DOMAIN runs : runs[r].pc = "read" /\ runs[r].reads > 0
    /\ comp.error = Null /\ ~comp.hasStarted /\ comp.isAnalyzing

\* C30: once Retry has been clicked, no step of a request issued before the click (a
\* chunk it reads, the end or the failure of its stream) changes analysisResults,
\* resourceResults, error or analysisComplete.
C30_RetryIsolation ==
    [][\A r \in DOMAIN runs :
         (runs[r].attempt < comp.retries /\ runs'[r] # runs[r])
            => /\ comp'.analysisResults = comp.analysisResults
               /\ comp'.resourceResults = comp.resourceResults
               /\ comp'.error = comp.error
               /\ comp'.analysisComplete = comp.analysisComplete]_vars

----------------------------------------------------------------------------
(* S3StreamingAnalysis: what the resource cards display *)

\* getDriftCount(results): results is {} when resourceResults has no entry
getDriftCount(results) ==
    IF results = {} \/ ~IsPresent(TheOne(results).detectionResults) THEN 0
    ELSE LET detectionData == TheOne(TheOne(results).detectionResults)
         IN IF detectionData.drift_count # {} THEN TheOne(detectionData.drift_count)
            ELSE IF IsPresent(detectionData.drifts) THEN Len(TheOne(detectionData.drifts))
            ELSE 0

\* const resources = analysisResults.resources || []
DisplayedResources(ar) == IF IsPresent(ar.resources) THEN TheOne(ar.resources) ELSE <<>>

\* renderResourceCard(resourceId, resourceResults[resourceId]): the count on the card
DisplayedCount(rr, r) == getDriftCount(IF Has(rr, r) THEN {Lookup(rr, r)} ELSE {})

CountCodes == {"as21", "ri1", "guA", "guD", "dc1", "dc2", "dc3", "dc4", "rc1"}
CountChunks == AlignedChunks(CountCodes, 1)

NextProjection ==
    \/ MountEffect
    \/ \E r \in DOMAIN runs : CompFetchOk(r)
    \/ \E r \in DOMAIN runs, chunk \in CountChunks : CompReadChunk(r, chunk)
    \/ \E r \in DOMAIN runs : CompReadDone(r)

SpecProjection == Init /\ [][NextProjection]_vars

\* the number of drift entries of a detection result as the contract counts them
DriftEntries(d) ==
    IF IsPresent(d.drifts) THEN Len(TheOne(d.drifts))
    ELSE IF d.drift_count # {} THEN TheOne(d.drift_count)
    ELSE 0

\* C14: after every sequence of events, the count displayed for a resource is the
\* number of entries of the drifts list of its stored detection result when it has
\* one, else the result's drift_count, else 0 (0 too when no result is stored).
C14_DerivedDriftCount ==
    \A r \in Resources :
        LET entry == ResourceOf(comp.resourceResults, r)
        IN DisplayedCount(comp.resourceResults, r)
             = IF IsPresent(entry.detectionResults)
               THEN DriftEntries(TheOne(entry.detectionResults)) ELSE 0

\* C24: the resources displayed are analysisResults.resources once it is set, and
\* until then the resources that have an entry in resourceResults, in the order the
\* entries were created.
C24_OrderFallback ==
    DisplayedResources(comp.analysisResults)
        = IF IsPresent(comp.analysisResults.resources)
          THEN TheOne(comp.analysisResults.resources)
          ELSE Keys(comp.resourceResults)

----------------------------------------------------------------------------
(* A complete run: session_initialized, analysis_started, one resource_group_update,
   analysis_complete, delivered in chunks of whole lines *)

Scenarios ==
    { <<"si", started, update, "ac">> :
        started \in {"as12", "as21"}, update \in {"guA", "guS", "guZ", "guN"} }

InitScenario ==
    /\ sessions = <<>>
    /\ currentSession = <<>>
    /\ activeStreams = <<>>
    /\ tasks = <<>>
    /\ now = 0
    /\ wire \in { [lines |-> ls, pos |-> 0, handed |-> <<>>] : ls \in Scenarios }
    /\ comp = CompInit
    /\ runs = <<>>

\* reader.read() returns the bytes up to the end of one of the next lines
ReadLines(t, k) ==
    /\ StreamText(wire.lines)[wire.pos + k] = "\n"
    /\ ReadBytes(t, k)

NextScenario ==
    \/ \E f \in FileNames : StartAnalysis(f, 1)
    \/ \E t \in DOMAIN tasks : FetchOk(t)
    \/ \E t \in DOMAIN tasks, k \in 1..(Len(StreamText(wire.lines)) - wire.pos) : ReadLines(t, k)
    \/ \E t \in DOMAIN tasks : wire.pos = Len(StreamText(wire.lines)) /\ ReadDone(t)

SpecScenario == InitScenario /\ [][NextScenario]_vars

\* the drifts the batch reports for a resource it marks completed, 0 for the others
BatchDrifts(update, r) ==
    LET entry == Lookup(TheOne(EventTable[update].data).resources, r)
    IN IF entry.status = "completed"
       THEN Len(TheOne(TheOne(entry.drift_result).drifts)) ELSE 0

\* C15: once the four events of the run have been read, the session is complete (and
\* neither analyzing nor failed), the displayed resources are the list of
\* analysis_started in its order, and each displays the number of drifts the batch
\* reported for it if the batch marked it completed, 0 if pending.
C15_ScenarioA ==
    \A t \in DOMAIN tasks :
        (tasks[t].reads > 0 /\ wire.pos = Len(StreamText(wire.lines)))
            => LET session == sessions[SidOf(t)]
                   R == EventTable[wire.lines[2]].resources
               IN /\ session.analysisComplete /\ ~session.isAnalyzing /\ session.error = Null
                  /\ DisplayedResources(session.analysisResults) = R
                  /\ \A i \in DOMAIN R :
                        DisplayedCount(session.resourceResults, R[i]) = BatchDrifts(wire.lines[3], R[i])

\* the instance R = [ec2, s3], ec2 completed with 2 drifts, s3 pending, read to its end
C15_Witness ==
    \E t \in DOMAIN tasks :
        /\ tasks[t].pc = "done" /\ tasks[t].reads > 1
        /\ wire.lines = <<"si", "as12", "guA", "ac">>
        /\ wire.handed = wire.lines
        /\ sessions[SidOf(t)].analysisComplete
        /\ DisplayedResources(sessions[SidOf(t)].analysisResults) = <<"ec2", "s3">>
        /\ DisplayedCount(sessions[SidOf(t)].resourceResults, "ec2") = 2
        /\ DisplayedCount(sessions[SidOf(t)].resourceResults, "s3") = 0

----------------------------------------------------------------------------
(* The initiating POST answered with an error status, in the provider and in the
   component *)

HttpStatuses == {423, 401, 403, 500}

NextHttp ==
    \/ \E f \in FileNames : StartAnalysis(f, 1)
    \/ \E t \in DOMAIN tasks : FetchOk(t)
    \/ \E t \in DOMAIN tasks, status \in HttpStatuses, body \in ErrorBodies :
            FetchRejected(t, status, body)
    \/ \E t \in DOMAIN tasks, chunk \in LiteChunks :
            ReadChunk(t, chunk, MaxReads) /\ UNCHANGED wire
    \/ \E t \in DOMAIN tasks : ReadDone(t)
    \/ MountEffect
    \/ \E r \in DOMAIN runs : CompFetchOk(r)
    \/ \E r \in DOMAIN runs, status \in RejectStatuses : CompFetchRejected(r, status)
    \/ \E r \in DOMAIN runs, chunk \in LiteChunks : CompReadChunk(r, chunk)
    \/ \E r \in DOMAIN runs : CompReadDone(r)

SpecHttp == Init /\ [][NextHttp]_vars

\* C13: when the POST is answered with 423, 401 or 403, the step that handles the
\* response leaves the session (the component) failed with the message of that status
\* and not analyzing, the attempt finished without a reader, no handle registered and
\* no chunk read; and a finished attempt never reads a chunk afterwards.
C13_HttpRejection ==
    [][/\ \A t \in DOMAIN tasks, status \in RejectStatuses, body \in ErrorBodies :
            FetchRejected(t, status, body)
                => /\ sessions'[SidOf(t)].error = RejectMessage(status)
                   /\ ~sessions'[SidOf(t)].isAnalyzing
                   /\ SidOf(t) \notin DOMAIN activeStreams'
                   /\ tasks'[t].pc = "done" /\ tasks'[t].reads = 0
       /\ \A r \in DOMAIN runs, status \in RejectStatuses :
            CompFetchRejected(r, status)
                => /\ comp'.error = RejectMessage(status)
                   /\ ~comp'.isAnalyzing
                   /\ runs'[r].pc = "done" /\ runs'[r].reads = 0
       /\ \A t \in DOMAIN tasks : tasks[t].pc = "done" => tasks'[t].reads = tasks[t].reads
       /\ \A r \in DOMAIN runs : runs[r].pc = "done" => runs'[r].reads = runs[r].reads]_vars

----------------------------------------------------------------------------
(* One analysis of the provider under every kind of failure *)

NextFailure ==
    \/ \E f \in FileNames : StartAnalysis(f, 1)
    \/ \E t \in DOMAIN tasks : FetchOk(t)
    \/ \E t \in DOMAIN tasks, msg \in Failures : FetchFail(t, msg)
    \/ \E t \in DOMAIN tasks, status \in HttpStatuses, body \in ErrorBodies :
            FetchRejected(t, status, body)
    \/ \E t \in DOMAIN tasks, chunk \in LiteChunks :
            ReadChunk(t, chunk, MaxReads) /\ UNCHANGED wire
    \/ \E t \in DOMAIN tasks : ReadDone(t)
    \/ \E t \in DOMAIN tasks, msg \in Failures : ReadError(t, msg)
    \/ \E sid \in DOMAIN sessions : stopAnalysis(sid)

SpecFailure == Init /\ [][NextFailure]_vars

\* the step of driver t is a failure with message msg
FailsWith(t, msg) ==
    \/ FetchFail(t, msg)
    \/ ReadError(t, msg)
    \/ \E status \in HttpStatuses, body \in ErrorBodies :
            msg = ErrorMessage(status, body) /\ FetchRejected(t, status, body)

FailureMessages ==
    Failures \cup { ErrorMessage(status, body) : status \in HttpStatuses, body \in ErrorBodies }

\* C17: a failure of the request (it cannot be established, is answered with an error
\* status, has no body) or of a read leaves the session stored with error the
\* failure's message and isAnalyzing false, its analysisResults and resourceResults
\* as before, and the driver finished.
C17_FailureCaptured ==
    [][\A t \in DOMAIN tasks, msg \in FailureMessages :
         FailsWith(t, msg)
            => /\ SidOf(t) \in DOMAIN sessions'
               /\ sessions'[SidOf(t)].error = msg
               /\ ~sessions'[SidOf(t)].isAnalyzing
               /\ sessions'[SidOf(t)].analysisResults = sessions[SidOf(t)].analysisResults
               /\ sessions'[SidOf(t)].resourceResults = sessions[SidOf(t)].resourceResults
               /\ tasks'[t].pc = "done"]_vars

\* a read failed after the stream had delivered results
C17_Witness ==
    \E t \in DOMAIN tasks :
        /\ tasks[t].pc = "done" /\ tasks[t].reads > 0 /\ ~tasks[t].aborted
        /\ sessions[SidOf(t)].error \in Failures
        /\ ~sessions[SidOf(t)].isAnalyzing
        /\ sessions[SidOf(t)].resourceResults # <<>>

----------------------------------------------------------------------------
(* The provider's sessions started, stopped, resumed and cleared *)

\* the ids a caller can pass
SessionIds == { generateSessionId(f, BackendSession, n) : f \in FileNames, n \in 0..MaxClock }

LifeCodes == {"ri1", "er"}
LifeChunks == AlignedChunks(LifeCodes, 1)

NextLifecycle ==
    \/ \E f \in FileNames : StartAnalysis(f, MaxTasks)
    \/ \E t \in DOMAIN tasks : FetchOk(t)
    \/ \E t \in DOMAIN tasks, msg \in Failures : FetchFail(t, msg)
    \/ \E t \in DOMAIN tasks, chunk \in LifeChunks :
            ReadChunk(t, chunk, 1) /\ UNCHANGED wire
    \/ \E t \in DOMAIN tasks : ReadDone(t)
    \/ \E sid \in DOMAIN sessions : stopAnalysis(sid)
    \/ \E sid \in SessionIds : resumeAnalysis(sid)
    \/ \E sid \in SessionIds : clearSession(sid)
    \/ clearAllSessions

SpecLifecycle == Init /\ [][NextLifecycle]_vars

\* no driver of the given ids is left running: each has ended or has been aborted
AllStopped(ts, ids) == \A t \in DOMAIN ts : ts[t].sid \in ids => (ts[t].pc = "done" \/ ts[t].aborted)

\* C18: clearSession(id) leaves no stream of id running, removes id from sessions
\* (and nothing else), drops its handle, and makes currentSession null exactly when
\* it was the session of that id; clearAllSessions leaves no stream running and
\* sessions, activeStreams and currentSession empty.
C18_ClearStopsAndRemoves ==
    [][/\ \A sid \in SessionIds :
            clearSession(sid)
                => /\ AllStopped(tasks', {sid})
                   /\ sessions' = Without(sessions, sid)
                   /\ sid \notin DOMAIN activeStreams'
                   /\ currentSession' = IF currentSession # <<>> /\ currentSession[1].id = sid
                                        THEN <<>> ELSE currentSession
       /\ clearAllSessions
                => /\ AllStopped(tasks', SessionIds)
                   /\ sessions' = <<>> /\ activeStreams' = <<>> /\ currentSession' = <<>>]_vars

\* C19: resumeAnalysis(id) returns the stored record of id, or null when id is not
\* stored; it leaves sessions, the registered handles and the drivers as they were
\* (no request, no handle), and only points currentSession at the returned record,
\* leaving it unchanged when null is returned.
C19_ResumeIsReadOnly ==
    [][\A sid \in SessionIds :
         resumeAnalysis(sid)
            => /\ ResumeReturn(sessions, sid)
                    = (IF sid \in DOMAIN sessions THEN <<sessions[sid]>> ELSE <<>>)
               /\ sessions' = sessions /\ activeStreams' = activeStreams /\ tasks' = tasks
               /\ currentSession' = IF ResumeReturn(sessions, sid) = <<>>
                                    THEN currentSession ELSE ResumeReturn(sessions, sid)]_vars

\* the session on display is an older session that has been resumed after a newer one
\* was started, and its stream is still being read
C19_Witness ==
    \E t1, t2 \in DOMAIN tasks :
        /\ t1 < t2 /\ SidOf(t1) # SidOf(t2)
        /\ SidOf(t1) \in DOMAIN sessions /\ SidOf(t2) \in DOMAIN sessions
        /\ currentSession = <<sessions[SidOf(t1)]>>
        /\ tasks[t1].pc = "read" /\ tasks[t1].reads = 1
        /\ SidOf(t1) \in DOMAIN activeStreams

\* C27: every entry of sessions is a full record (every field of AnalysisSession
\* defined) whose id is its key; in particular no operation on an id that is not
\* stored, and no failure of a request whose session was cleared, creates an entry.
C27_StoreWellFormed ==
    \A sid \in DOMAIN sessions :
        sessions[sid].def = AllFields /\ sessions[sid].id = sid

\* C29: whenever currentSession is not null, it is the record stored in sessions
\* under its id.
C29_CurrentSessionCoherent ==
    currentSession # <<>>
        => /\ currentSession[1].id \in DOMAIN sessions
           /\ sessions[currentSession[1].id] = currentSession[1]

====
